---- MODULE Spec2Model ----
(***************************************************************************)
(* Model of scripts/preflight.py: check_for_secrets() walks the tree under *)
(* '.', opens every file whose name ends with one of EXTENSIONS, searches   *)
(* its content with secret_pattern and for each of SECRET_KEYWORDS, prints  *)
(* one line per finding and a summary.                                      *)
(*                                                                         *)
(* Text is modelled as sequences of one-character strings, so that suffix   *)
(* tests, substring search and the regular expression are computed.         *)
(***************************************************************************)
EXTENDS Integers, Sequences, FiniteSets, TLC

(***************************************************************************)
(* Configuration (preflight.py lines 13-17)                                *)
(***************************************************************************)
SECRET_KEYWORDS ==
    << <<"p","r","o","p","r","i","e","t","a","r","y","_","a","l","g","o">>,
       <<"i","n","t","e","r","n","a","l","_","i","p">>,
       <<"d","e","v","_","b","a","c","k","d","o","o","r">> >>

EXTENSIONS ==
    << <<".","j","s">>, <<".","t","s">>, <<".","p","y">>, <<".","j","s","x">>,
       <<".","t","s","x">>, <<".","e","n","v">>, <<".","j","s","o","n">> >>

IGNORE_DIRS ==
    << <<"n","o","d","e","_","m","o","d","u","l","e","s">>, <<".","g","i","t">>,
       <<"d","i","s","t">>, <<"b","u","i","l","d">>,
       <<"_","a","r","c","h","i","v","e">> >>

\* the literal the keyword check compares the file name with (line 46)
SelfName == <<"p","r","e","f","l","i","g","h","t",".","p","y">>

(***************************************************************************)
(* Characters                                                              *)
(***************************************************************************)
UpperToLower ==
    [A |-> "a", B |-> "b", C |-> "c", D |-> "d", E |-> "e", F |-> "f",
     G |-> "g", H |-> "h", I |-> "i", J |-> "j", K |-> "k", L |-> "l",
     M |-> "m", N |-> "n", O |-> "o", P |-> "p", Q |-> "q", R |-> "r",
     S |-> "s", T |-> "t", U |-> "u", V |-> "v", W |-> "w", X |-> "x",
     Y |-> "y", Z |-> "z"]

UpperCase == DOMAIN UpperToLower
LowerCase == {UpperToLower[c] : c \in UpperCase}
Digits == {"0","1","2","3","4","5","6","7","8","9"}

\* re.IGNORECASE compares letters after case folding
Lower(c) == IF c \in UpperCase THEN UpperToLower[c] ELSE c

\* the class [a-zA-Z0-9_\-]
IsValueChar(c) == c \in LowerCase \cup UpperCase \cup Digits \cup {"_", "-"}

\* the class ['"]
IsQuote(c) == c \in {"'", "\""}

\* the class [_-] of the optional separator inside a name
IsSeparator(c) == c \in {"_", "-"}

(***************************************************************************)
(* str.endswith(tuple) and the 'in' operators                              *)
(***************************************************************************)
Range(s) == {s[i] : i \in DOMAIN s}

\* variant: the suffix is compared without regard to case
EndsWithIgnoringCase(s, suffix) ==
    /\ Len(suffix) <= Len(s)
    /\ \A k \in 1..Len(suffix) :
          Lower(s[Len(s) - Len(suffix) + k]) = Lower(suffix[k])

EndsWith(s, suffix) ==
    /\ Len(suffix) <= Len(s)
    /\ SubSeq(s, Len(s) - Len(suffix) + 1, Len(s)) = suffix

\* file.endswith(EXTENSIONS)
EndsWithAny(s, suffixes) == \E i \in DOMAIN suffixes : EndsWith(s, suffixes[i])

\* word in content
Contains(s, w) ==
    \E i \in 1..(Len(s) - Len(w) + 1) : SubSeq(s, i, i + Len(w) - 1) = w

(***************************************************************************)
(* secret_pattern (line 21):                                               *)
(*  (api[_-]?key|secret|password|auth[_-]?token|private[_-]?key|           *)
(*   access[_-]?token) *= *['"][a-zA-Z0-9_\-]{10,}['"]    re.IGNORECASE    *)
(***************************************************************************)
MinValueLen == 10

\* s has the letters of lit at position i, case folded
LitAt(s, i, lit) ==
    /\ i + Len(lit) - 1 <= Len(s)
    /\ \A k \in 1..Len(lit) : Lower(s[i + k - 1]) = lit[k]

\* the positions right after a match of  head[_-]?tail  that starts at i
TwoPartEnds(s, i, head, tail) ==
    {j \in (i + 1)..(Len(s) + 1) :
        /\ LitAt(s, i, head)
        /\ \/ /\ j = i + Len(head) + Len(tail)
              /\ LitAt(s, i + Len(head), tail)
           \/ /\ j = i + Len(head) + 1 + Len(tail)
              /\ i + Len(head) <= Len(s)
              /\ IsSeparator(s[i + Len(head)])
              /\ LitAt(s, i + Len(head) + 1, tail)}

OnePartEnds(s, i, lit) ==
    IF LitAt(s, i, lit) THEN {i + Len(lit)} ELSE {}

\* variant: the group of names also has the bare alternative 'key'
NameEndsAnyKey(s, i) ==
    TwoPartEnds(s, i, <<"a","p","i">>, <<"k","e","y">>)
      \cup OnePartEnds(s, i, <<"k","e","y">>)
      \cup OnePartEnds(s, i, <<"s","e","c","r","e","t">>)
      \cup OnePartEnds(s, i, <<"p","a","s","s","w","o","r","d">>)
      \cup TwoPartEnds(s, i, <<"a","u","t","h">>, <<"t","o","k","e","n">>)
      \cup TwoPartEnds(s, i, <<"p","r","i","v","a","t","e">>, <<"k","e","y">>)
      \cup TwoPartEnds(s, i, <<"a","c","c","e","s","s">>, <<"t","o","k","e","n">>)

\* the positions right after a match of the group of names that starts at i
NameEnds(s, i) ==
    TwoPartEnds(s, i, <<"a","p","i">>, <<"k","e","y">>)
      \cup OnePartEnds(s, i, <<"s","e","c","r","e","t">>)
      \cup OnePartEnds(s, i, <<"p","a","s","s","w","o","r","d">>)
      \cup TwoPartEnds(s, i, <<"a","u","t","h">>, <<"t","o","k","e","n">>)
      \cup TwoPartEnds(s, i, <<"p","r","i","v","a","t","e">>, <<"k","e","y">>)
      \cup TwoPartEnds(s, i, <<"a","c","c","e","s","s">>, <<"t","o","k","e","n">>)

\* ' *' : the first position at or after i that holds no space.  The element
\* after each ' *' is not a space, so the greedy run is the only candidate.
RECURSIVE SkipSpaces(_, _)
SkipSpaces(s, i) ==
    IF i <= Len(s) /\ s[i] = " " THEN SkipSpaces(s, i + 1) ELSE i

\* the first position at or after i that holds no character of the value class.
\* The closing class ['"] is disjoint from the value class, so again the
\* greedy run is the only candidate.
RECURSIVE SkipValue(_, _)
SkipValue(s, i) ==
    IF i <= Len(s) /\ IsValueChar(s[i]) THEN SkipValue(s, i + 1) ELSE i

\* the rest of the pattern after the name:  *= *['"][...]{10,}['"]
AssignmentAt(s, e) ==
    LET eq == SkipSpaces(s, e) IN
    /\ eq <= Len(s)
    /\ s[eq] = "="
    /\ LET open == SkipSpaces(s, eq + 1) IN
       /\ open <= Len(s)
       /\ IsQuote(s[open])
       /\ LET close == SkipValue(s, open + 1) IN
          /\ close - (open + 1) >= MinValueLen
          /\ close <= Len(s)
          /\ IsQuote(s[close])

MatchAt(s, i) == \E e \in NameEnds(s, i) : AssignmentAt(s, e)

\* secret_pattern.search(content)
Search(s) == \E i \in 1..Len(s) : MatchAt(s, i)

(***************************************************************************)
(* open(path, 'r', errors='ignore').read(): bytes that do not decode are    *)
(* dropped.  "?" stands for such a byte.                                   *)
(***************************************************************************)
BadByte == "?"

\* (halving keeps the depth of the recursion logarithmic in the length)
RECURSIVE Decode(_)
Decode(bytes) ==
    IF Len(bytes) = 0 THEN <<>>
    ELSE IF Len(bytes) = 1
         THEN (IF bytes[1] = BadByte THEN <<>> ELSE bytes)
    ELSE LET half == Len(bytes) \div 2
         IN Decode(SubSeq(bytes, 1, half))
              \o Decode(SubSeq(bytes, half + 1, Len(bytes)))

\* os.path.join(root, file)
Join(a, b) == a \o <<"/">> \o b

(***************************************************************************)
(* The scanned tree.  A directory is [name, parent], a file is             *)
(* [name, dir, bytes, readable]; entry 1 of dirs is the scan root '.'.      *)
(* A directory lists its entries in index order.                           *)
(***************************************************************************)
MaxDirs == 3
MaxFiles == 2
MaxRuns == 2
MaxExtra == 1

RootDir == [name |-> <<".">>, parent |-> 0]

\* one ignored name and one that only starts like it
DirNames == { <<"d","i","s","t">>, <<"d","i","s","t","s">> }

Newline == <<"\n">>
Value12 == <<"a","b","c","d","e","f","1","2","3","4","_","-">>
ApiKeyAssignment ==
    <<"a","p","i","K","e","y"," ","=", " ", "\"">> \o SubSeq(Value12, 1, 10) \o <<"\"">>
CacheKeyAssignment ==
    <<"c","a","c","h","e","K","e","y"," ","=", " ", "\"">> \o SubSeq(Value12, 1, 10) \o <<"\"">>
SecretAssignment ==
    <<"s","e","c","r","e","t"," ","=", " ", "\"">>
      \o <<"x","y","z","1","2","3","4","5","6","7","8","9","0">> \o <<"\"">>
CleanText == <<"x"," ","=", " ","1">>

\* files of the trees with several directories, in the order in which a
\* directory that holds several of them lists them
FileKinds ==
    << [name |-> <<"a","p","p",".","t","s">>,
        bytes |-> SecretAssignment \o Newline \o SECRET_KEYWORDS[3] \o Newline
                    \o SECRET_KEYWORDS[2],
        readable |-> TRUE],
       [name |-> <<"b",".","j","s">>, bytes |-> SECRET_KEYWORDS[1],
        readable |-> FALSE],
       [name |-> SelfName,
        bytes |-> ApiKeyAssignment \o Newline \o SECRET_KEYWORDS[1],
        readable |-> TRUE] >>

InDir(k, d) ==
    [name |-> k.name, dir |-> d, bytes |-> k.bytes, readable |-> k.readable]

DirLists ==
    UNION {
      {ds \in [1..n -> {RootDir} \cup [name : DirNames, parent : 1..(n - 1)]] :
          /\ ds[1] = RootDir
          /\ \A d \in 2..n : ds[d] # RootDir /\ ds[d].parent < d
          /\ \A d, e \in 2..n : d # e => ds[d] # ds[e]}
      : n \in 1..MaxDirs}

\* up to MaxFiles files in n directories: a file is <<directory, kind>>
FileLists(n, kinds) ==
    UNION {
      {[f \in 1..m |-> InDir(kinds[sl[f][2]], sl[f][1])] :
          sl \in {t \in [1..m -> (1..n) \X (1..Len(kinds))] :
                    \A f \in 1..(m - 1) :
                       \/ t[f][1] < t[f + 1][1]
                       \/ t[f][1] = t[f + 1][1] /\ t[f][2] < t[f + 1][2]}}
      : m \in 0..MaxFiles}

ShapeTrees ==
    UNION { {[dirs |-> ds, files |-> fl] : fl \in FileLists(Len(ds), FileKinds)}
            : ds \in DirLists }

\* one file in the scan root
SingleFile(name, bytes, readable) ==
    [dirs |-> <<RootDir>>,
     files |-> <<[name |-> name, dir |-> 1, bytes |-> bytes,
                  readable |-> readable]>>]

\* contents built around an assignment, part by part
PatternNames ==
    { <<"a","p","i","K","e","y">>, <<"A","P","I","_","K","E","Y">>,
      <<"a","p","i","_","_","k","e","y">>, <<"c","a","c","h","e","K","e","y">>,
      <<"m","y","_","s","e","c","r","e","t">>, <<"p","a","s","s","w","o","r">>,
      <<"a","u","t","h","-","t","o","k","e","n">> }

PatternGapsBefore == { <<>>, <<" ", " ">>, <<"\t">> }
PatternGapsAfter == { <<>>, <<" ">> }
PatternEquals == { <<"=">>, <<":">> }
PatternOpens == { <<"'">>, <<"\"">>, <<"(">> }
PatternCloses == { <<"'">>, <<"\"">>, <<>> }
PatternValues ==
    {SubSeq(Value12, 1, n) : n \in (MinValueLen - 1)..(MinValueLen + MaxExtra)}
      \cup { <<"a","b","c","d","e",".","1","2","3","4">> }

PatternTexts ==
    {n \o g1 \o e \o g2 \o o \o v \o c :
        n \in PatternNames, g1 \in PatternGapsBefore, e \in PatternEquals,
        g2 \in PatternGapsAfter, o \in PatternOpens, v \in PatternValues,
        c \in PatternCloses}
      \cup { ApiKeyAssignment, CacheKeyAssignment }
      \cup {n \o <<"=", "'">> \o SubSeq(Value12, 1, MinValueLen) \o <<"'">> :
              n \in { <<"P","a","s","s","w","o","r","d">>,
                      <<"p","r","i","v","a","t","e","_","k","e","y">>,
                      <<"a","c","c","e","s","s","T","o","k","e","n">> }}

PatternTrees == {SingleFile(<<"a",".","p","y">>, t, TRUE) : t \in PatternTexts}

\* contents built from the keywords, each present or not, once or three times
RECURSIVE Repeat(_, _)
Repeat(w, n) == IF n = 0 THEN <<>> ELSE w \o Newline \o Repeat(w, n - 1)

RECURSIVE KeywordLines(_, _, _)
KeywordLines(present, n, i) ==
    IF i > Len(SECRET_KEYWORDS) THEN <<>>
    ELSE (IF i \in present THEN Repeat(SECRET_KEYWORDS[i], n) ELSE <<>>)
           \o KeywordLines(present, n, i + 1)

KeywordTexts ==
    {a \o Newline \o KeywordLines(present, n, 1) :
        a \in {CleanText, ApiKeyAssignment, CacheKeyAssignment},
        present \in SUBSET (1..Len(SECRET_KEYWORDS)), n \in {1, 3}}
      \cup { <<"s","e","c",BadByte,"r","e","t","=","'">> \o SubSeq(Value12, 1, 10)
               \o <<"'">> \o Newline
               \o <<"i","n","t","e","r","n","a","l",BadByte,"_","i","p">>,
             <<"I","n","t","e","r","n","a","l","_","i","p">>,
             ApiKeyAssignment \o Newline \o ApiKeyAssignment }

SingleFileNames ==
    { <<"a",".","p","y">>, <<"a",".","P","Y">>, <<"a",".","t","x","t">>,
      <<"p","y">>, <<"a",".","j","s","o","n">>, <<".","e","n","v">>, SelfName,
      <<"m","y","_">> \o SelfName }

KeywordTrees ==
    {SingleFile(n, t, r) : n \in SingleFileNames, t \in KeywordTexts,
                           r \in BOOLEAN}

Trees == ShapeTrees \cup PatternTrees \cup KeywordTrees

(***************************************************************************)
(* os.walk('.') top-down: the listing of a directory, in index order       *)
(***************************************************************************)
RECURSIVE Ascending(_)
Ascending(S) ==
    IF S = {} THEN <<>>
    ELSE LET m == CHOOSE x \in S : \A y \in S : x <= y
         IN <<m>> \o Ascending(S \ {m})

\* the names of the subdirectories of d, as indices into tree.dirs
SubDirs(tree, d) ==
    Ascending({e \in DOMAIN tree.dirs : tree.dirs[e].parent = d})

\* the names of the files of d, as indices into tree.files
FilesOf(tree, d) ==
    Ascending({f \in DOMAIN tree.files : tree.files[f].dir = d})

\* variant: nothing is removed from dirs
PruneNothing(tree, dirs) == dirs

\* line 27: dirs[:] = [d for d in dirs if d not in IGNORE_DIRS]
RECURSIVE Prune(_, _)
Prune(tree, dirs) ==
    IF dirs = <<>> THEN <<>>
    ELSE (IF tree.dirs[Head(dirs)].name \notin Range(IGNORE_DIRS)
          THEN <<Head(dirs)>> ELSE <<>>)
           \o Prune(tree, Tail(dirs))

(***************************************************************************)
(* State                                                                   *)
(***************************************************************************)
VARIABLES
    fs,            \* the tree under the scan root
    pc,            \* where check_for_secrets is
    stack,         \* os.walk: directories still to list, [dir, path], top first
    root,          \* path of the directory being scanned
    files,         \* files of that directory not yet looked at
    file,          \* the file being looked at (index into fs.files, 0: none)
    path,          \* os.path.join(root, file)
    content,       \* f.read()
    word,          \* position of the keyword loop in SECRET_KEYWORDS
    issues_found,
    output,        \* the lines printed on standard output
    visited,       \* history: directories os.walk has listed, in order
    opened,        \* history: [file, path] of every file opened, in order
    checks,        \* history: <<file, check>> for every check run
    run,           \* number of the current run
    previous       \* result of the run before, <<>> in the first run

vars == <<fs, pc, stack, root, files, file, path, content, word, issues_found,
          output, visited, opened, checks, run, previous>>

StartBanner == [kind |-> "START"]
CompleteBanner == [kind |-> "COMPLETE"]
SuccessLine == [kind |-> "SUCCESS"]
FailedLine(n) == [kind |-> "FAILED", count |-> n]
WarningLine(p) == [kind |-> "WARNING", path |-> p]
ProprietaryLine(p, w) == [kind |-> "PROPRIETARY", path |-> p, word |-> w]

Init ==
    /\ fs \in Trees
    /\ pc = "start"
    /\ stack = <<>>
    /\ root = <<>>
    /\ files = <<>>
    /\ file = 0
    /\ path = <<>>
    /\ content = <<>>
    /\ word = 1
    /\ issues_found = 0
    /\ output = <<>>
    /\ visited = <<>>
    /\ opened = <<>>
    /\ checks = {}
    /\ run = 1
    /\ previous = <<>>

\* variant: the counter is not set to 0 at the start of a run
StartKeepingCount ==
    /\ pc = "start"
    /\ output' = Append(output, StartBanner)
    /\ stack' = <<[dir |-> 1, path |-> <<".">>]>>
    /\ pc' = "walk"
    /\ UNCHANGED <<fs, root, files, file, path, content, word, issues_found,
                   visited, opened, checks, run, previous>>

\* lines 23-26: the counter, the banner, the call of os.walk('.')
Start ==
    /\ pc = "start"
    /\ issues_found' = 0
    /\ output' = Append(output, StartBanner)
    /\ stack' = <<[dir |-> 1, path |-> <<".">>]>>
    /\ pc' = "walk"
    /\ UNCHANGED <<fs, root, files, file, path, content, word, visited, opened,
                   checks, run, previous>>

\* lines 26-27: os.walk yields the next directory, its subdirectories are
\* pruned and the ones that remain are what os.walk descends into
WalkNext ==
    /\ pc = "walk"
    /\ stack # <<>>
    /\ LET top == Head(stack)
           dirs == Prune(fs, SubDirs(fs, top.dir))
           below == [i \in 1..Len(dirs) |->
                       [dir |-> dirs[i],
                        path |-> Join(top.path, fs.dirs[dirs[i]].name)]]
       IN /\ root' = top.path
          /\ files' = FilesOf(fs, top.dir)
          /\ stack' = below \o Tail(stack)
          /\ visited' = Append(visited, top.dir)
    /\ pc' = "files"
    /\ UNCHANGED <<fs, file, path, content, word, issues_found, output, opened,
                   checks, run, previous>>

\* lines 29-30: the next file does not end with one of EXTENSIONS
SkipFile ==
    /\ pc = "files"
    /\ files # <<>>
    /\ ~EndsWithAny(fs.files[Head(files)].name, EXTENSIONS)
    /\ file' = Head(files)
    /\ files' = Tail(files)
    /\ UNCHANGED <<fs, pc, stack, root, path, content, word, issues_found,
                   output, visited, opened, checks, run, previous>>

\* lines 29-33: the next file ends with one of EXTENSIONS, is opened and read
OpenFile ==
    /\ pc = "files"
    /\ files # <<>>
    /\ EndsWithAny(fs.files[Head(files)].name, EXTENSIONS)
    /\ fs.files[Head(files)].readable
    /\ file' = Head(files)
    /\ files' = Tail(files)
    /\ path' = Join(root, fs.files[Head(files)].name)
    /\ content' = Decode(fs.files[Head(files)].bytes)
    /\ opened' = Append(opened, [file |-> Head(files), path |-> path'])
    /\ pc' = "credential"
    /\ UNCHANGED <<fs, stack, root, word, issues_found, output, visited,
                   checks, run, previous>>

\* line 32: open() raises (PermissionError, ...); nothing in check_for_secrets
\* catches it, the exception leaves the function and ends the process
OpenError ==
    /\ pc = "files"
    /\ files # <<>>
    /\ EndsWithAny(fs.files[Head(files)].name, EXTENSIONS)
    /\ ~fs.files[Head(files)].readable
    /\ file' = Head(files)
    /\ files' = Tail(files)
    /\ path' = Join(root, fs.files[Head(files)].name)
    /\ opened' = Append(opened, [file |-> Head(files), path |-> path'])
    /\ pc' = "raised"
    /\ UNCHANGED <<fs, stack, root, content, word, issues_found, output,
                   visited, checks, run, previous>>

\* variant: the credential finding is printed but not counted
CheckCredentialUncounted ==
    /\ pc = "credential"
    /\ checks' = checks \cup {<<file, "credential">>}
    /\ IF Search(content)
       THEN output' = Append(output, WarningLine(path))
       ELSE UNCHANGED output
    /\ word' = 1
    /\ pc' = "keywords"
    /\ UNCHANGED <<fs, stack, root, files, file, path, content, issues_found,
                   visited, opened, run, previous>>

\* lines 36-38
CheckCredential ==
    /\ pc = "credential"
    /\ checks' = checks \cup {<<file, "credential">>}
    /\ IF Search(content)
       THEN /\ output' = Append(output, WarningLine(path))
            /\ issues_found' = issues_found + 1
       ELSE UNCHANGED <<output, issues_found>>
    /\ word' = 1
    /\ pc' = "keywords"
    /\ UNCHANGED <<fs, stack, root, files, file, path, content, visited, opened,
                   run, previous>>

\* line 46: the file is called preflight.py, the keyword loop is skipped
SkipKeywords ==
    /\ pc = "keywords"
    /\ fs.files[file].name = SelfName
    /\ pc' = "files"
    /\ UNCHANGED <<fs, stack, root, files, file, path, content, word,
                   issues_found, output, visited, opened, checks, run,
                   previous>>

\* the number of positions of s at which w occurs
Occurrences(s, w) ==
    Cardinality({i \in 1..(Len(s) - Len(w) + 1) :
                    SubSeq(s, i, i + Len(w) - 1) = w})

\* variant: one finding for every occurrence of the keyword
CheckKeywordPerOccurrence ==
    /\ pc = "keywords"
    /\ fs.files[file].name # SelfName
    /\ checks' = checks \cup {<<file, "keyword">>}
    /\ LET n == Occurrences(content, SECRET_KEYWORDS[word])
       IN /\ output' = output \o [i \in 1..n |->
                                    ProprietaryLine(path, SECRET_KEYWORDS[word])]
          /\ issues_found' = issues_found + n
    /\ IF word < Len(SECRET_KEYWORDS)
       THEN word' = word + 1 /\ pc' = pc
       ELSE word' = word /\ pc' = "files"
    /\ UNCHANGED <<fs, stack, root, files, file, path, content, visited, opened,
                   run, previous>>

\* variant: the keyword loop also runs on preflight.py
CheckKeywordAlways ==
    /\ pc = "keywords"
    /\ checks' = checks \cup {<<file, "keyword">>}
    /\ IF Contains(content, SECRET_KEYWORDS[word])
       THEN /\ output' = Append(output,
                                ProprietaryLine(path, SECRET_KEYWORDS[word]))
            /\ issues_found' = issues_found + 1
       ELSE UNCHANGED <<output, issues_found>>
    /\ IF word < Len(SECRET_KEYWORDS)
       THEN word' = word + 1 /\ pc' = pc
       ELSE word' = word /\ pc' = "files"
    /\ UNCHANGED <<fs, stack, root, files, file, path, content, visited, opened,
                   run, previous>>

\* variant: the keyword loop runs from the last keyword to the first
CheckKeywordReversed ==
    /\ pc = "keywords"
    /\ fs.files[file].name # SelfName
    /\ checks' = checks \cup {<<file, "keyword">>}
    /\ LET w == SECRET_KEYWORDS[Len(SECRET_KEYWORDS) - word + 1]
       IN IF Contains(content, w)
          THEN /\ output' = Append(output, ProprietaryLine(path, w))
               /\ issues_found' = issues_found + 1
          ELSE UNCHANGED <<output, issues_found>>
    /\ IF word < Len(SECRET_KEYWORDS)
       THEN word' = word + 1 /\ pc' = pc
       ELSE word' = word /\ pc' = "files"
    /\ UNCHANGED <<fs, stack, root, files, file, path, content, visited, opened,
                   run, previous>>

\* lines 47-50: one iteration of the keyword loop
CheckKeyword ==
    /\ pc = "keywords"
    /\ fs.files[file].name # SelfName
    /\ checks' = checks \cup {<<file, "keyword">>}
    /\ IF Contains(content, SECRET_KEYWORDS[word])
       THEN /\ output' = Append(output,
                                ProprietaryLine(path, SECRET_KEYWORDS[word]))
            /\ issues_found' = issues_found + 1
       ELSE UNCHANGED <<output, issues_found>>
    /\ IF word < Len(SECRET_KEYWORDS)
       THEN word' = word + 1 /\ pc' = pc
       ELSE word' = word /\ pc' = "files"
    /\ UNCHANGED <<fs, stack, root, files, file, path, content, visited, opened,
                   run, previous>>

\* line 29: the files of the directory are exhausted, os.walk resumes
EndOfDirectory ==
    /\ pc = "files"
    /\ files = <<>>
    /\ pc' = "walk"
    /\ UNCHANGED <<fs, stack, root, files, file, path, content, word,
                   issues_found, output, visited, opened, checks, run,
                   previous>>

\* lines 52-56: os.walk is exhausted
Finish ==
    /\ pc = "walk"
    /\ stack = <<>>
    /\ output' = output \o <<CompleteBanner,
                             IF issues_found > 0 THEN FailedLine(issues_found)
                                                 ELSE SuccessLine>>
    /\ pc' = "done"
    /\ UNCHANGED <<fs, stack, root, files, file, path, content, word,
                   issues_found, visited, opened, checks, run, previous>>

\* lines 58-59: the script is run again on the same tree
Rerun ==
    /\ pc \in {"done", "raised"}
    /\ run < MaxRuns
    /\ previous' = [pc |-> pc, output |-> output, issues_found |-> issues_found]
    /\ run' = run + 1
    /\ pc' = "start"
    /\ stack' = <<>>
    /\ root' = <<>>
    /\ files' = <<>>
    /\ file' = 0
    /\ path' = <<>>
    /\ content' = <<>>
    /\ word' = 1
    /\ output' = <<>>
    /\ visited' = <<>>
    /\ opened' = <<>>
    /\ checks' = {}
    /\ UNCHANGED <<fs, issues_found>>

Next ==
    \/ Start
    \/ WalkNext
    \/ SkipFile
    \/ OpenFile
    \/ OpenError
    \/ CheckCredential
    \/ SkipKeywords
    \/ CheckKeyword
    \/ EndOfDirectory
    \/ Finish

\* one run of the script
Spec == Init /\ [][Next]_vars

\* up to MaxRuns runs of the script, one after the other, on the same tree
NextTwice ==
    \/ Next
    \/ Rerun

SpecTwice == Init /\ [][NextTwice]_vars

(***************************************************************************)
(* Vocabulary of the properties                                            *)
(***************************************************************************)
IsFinding(line) == line.kind \in {"WARNING", "PROPRIETARY"}

FindingLines == {i \in DOMAIN output : IsFinding(output[i])}

\* the positions of the finding lines that carry path p
LinesFor(p) == {i \in FindingLines : output[i].path = p}

\* some directory from d up to, not including, the scan root has an ignored name
RECURSIVE UnderIgnored(_, _)
UnderIgnored(tree, d) ==
    /\ d # 1
    /\ \/ tree.dirs[d].name \in Range(IGNORE_DIRS)
       \/ UnderIgnored(tree, tree.dirs[d].parent)

\* the path of directory d, from its chain of parents
RECURSIVE DirPath(_, _)
DirPath(tree, d) ==
    IF d = 1 THEN <<".">>
    ELSE DirPath(tree, tree.dirs[d].parent) \o <<"/">> \o tree.dirs[d].name

FilePath(tree, f) ==
    DirPath(tree, tree.files[f].dir) \o <<"/">> \o tree.files[f].name

\* name is some text followed by one of the allowed extensions
HasAllowedExtension(name) ==
    \E i \in DOMAIN EXTENSIONS, k \in 0..Len(name) :
        name = SubSeq(name, 1, k) \o EXTENSIONS[i]

\* the files whose scan is over: opened, read, both checks behind them
Scanned ==
    {opened[i].file : i \in {j \in DOMAIN opened :
        /\ fs.files[opened[j].file].readable
        /\ j < Len(opened) \/ pc \in {"files", "walk", "done"}}}

Text(f) == Decode(fs.files[f].bytes)

Last(seq) == seq[Len(seq)]

(***************************************************************************)
(* C1: no directory below an ignored directory is listed or waits to be    *)
(* listed, and no file below one is looked at, opened or checked.          *)
(***************************************************************************)
C1_IgnoredNeverVisited ==
    /\ \A i \in DOMAIN visited : ~UnderIgnored(fs, visited[i])
    /\ \A i \in DOMAIN stack : ~UnderIgnored(fs, stack[i].dir)
    /\ \A i \in DOMAIN opened : ~UnderIgnored(fs, fs.files[opened[i].file].dir)
    /\ \A c \in checks : ~UnderIgnored(fs, fs.files[c[1]].dir)
    /\ \A i \in DOMAIN files : ~UnderIgnored(fs, fs.files[files[i]].dir)
    /\ file # 0 => ~UnderIgnored(fs, fs.files[file].dir)
    /\ \A f \in DOMAIN fs.files :
          UnderIgnored(fs, fs.files[f].dir) => LinesFor(FilePath(fs, f)) = {}

\* a finished scan of a tree with a readable .ts file two levels below an
\* ignored directory (./dist/dists/app.ts)
C1_Witness ==
    /\ pc = "done"
    /\ \E f \in DOMAIN fs.files :
          /\ HasAllowedExtension(fs.files[f].name)
          /\ fs.files[f].readable
          /\ fs.dirs[fs.files[f].dir].name \notin Range(IGNORE_DIRS)
          /\ UnderIgnored(fs, fs.files[f].dir)

(***************************************************************************)
(* C2: a file whose name does not end with an allowed extension is never    *)
(* opened, never checked and never named by a finding, and issues_found     *)
(* counts only findings of files with an allowed extension.                *)
(***************************************************************************)
C2_OtherExtensionsUnchecked ==
    /\ \A f \in DOMAIN fs.files :
          ~HasAllowedExtension(fs.files[f].name) =>
              /\ \A i \in DOMAIN opened : opened[i].file # f
              /\ <<f, "credential">> \notin checks
              /\ <<f, "keyword">> \notin checks
              /\ LinesFor(FilePath(fs, f)) = {}
    /\ pc # "start" =>
          issues_found =
            Cardinality({i \in FindingLines :
                           \E f \in DOMAIN fs.files :
                              /\ HasAllowedExtension(fs.files[f].name)
                              /\ output[i].path = FilePath(fs, f)})

\* a finished scan that went past a.PY holding an assignment and a keyword
C2_Witness ==
    /\ pc = "done"
    /\ file # 0
    /\ fs.files[file].name = <<"a",".","P","Y">>
    /\ Search(Text(file))
    /\ Contains(Text(file), SECRET_KEYWORDS[1])
    /\ issues_found = 0

(***************************************************************************)
(* C3: during a run issues_found is the number of finding lines printed;    *)
(* the summary is printed only by a finished scan, after the completion     *)
(* banner, and is the SUCCESS line when there is no finding and the FAILED  *)
(* line with the number of findings otherwise.                             *)
(***************************************************************************)
C3_CountMatchesOutput ==
    /\ pc # "start" => issues_found = Cardinality(FindingLines)
    /\ pc # "done" =>
          \A i \in DOMAIN output : output[i].kind \notin {"SUCCESS", "FAILED"}
    /\ pc = "done" =>
          /\ Len(output) >= 3
          /\ output[Len(output) - 1] = CompleteBanner
          /\ (Last(output) = SuccessLine) <=> (Cardinality(FindingLines) = 0)
          /\ Cardinality(FindingLines) > 0 =>
                Last(output) = FailedLine(Cardinality(FindingLines))
          /\ Last(output).kind \in {"SUCCESS", "FAILED"}
          /\ \A i \in 1..(Len(output) - 1) :
                output[i].kind \notin {"SUCCESS", "FAILED"}

\* a finished scan with findings of both kinds
C3_Witness ==
    /\ pc = "done"
    /\ issues_found = 3
    /\ \E i, j \in DOMAIN output :
          output[i].kind = "WARNING" /\ output[j].kind = "PROPRIETARY"
    /\ Last(output) = FailedLine(3)

(***************************************************************************)
(* C4: no error of a single file leaves check_for_secrets: the scan is      *)
(* never ended by an exception.                                            *)
(***************************************************************************)
C4_ScanNeverAborts == pc # "raised"

(***************************************************************************)
(* C5: a scanned file has one finding line if secret_pattern matches its    *)
(* content, none otherwise, plus, unless it is preflight.py, one for each   *)
(* keyword its content contains; a keyword repeated three times gives one   *)
(* line and two keywords give two.                                         *)
(***************************************************************************)
ThreeTimes == CleanText \o Newline \o KeywordLines({1}, 3, 1)
TwoKeywords == CleanText \o Newline \o KeywordLines({2, 3}, 1, 1)
TwoAssignments == ApiKeyAssignment \o Newline \o ApiKeyAssignment

Contribution(f) ==
    (IF Search(Text(f)) THEN 1 ELSE 0)
      + (IF fs.files[f].name = SelfName THEN 0
         ELSE Cardinality({i \in DOMAIN SECRET_KEYWORDS :
                             Contains(Text(f), SECRET_KEYWORDS[i])}))

RECURSIVE Total(_)
Total(S) ==
    IF S = {} THEN 0
    ELSE LET f == CHOOSE x \in S : TRUE IN Contribution(f) + Total(S \ {f})

\* the lines that name f are what its content and its name call for
C5_FileAgrees(f) ==
    /\ Cardinality(LinesFor(FilePath(fs, f))) = Contribution(f)
    /\ fs.files[f].name # SelfName =>
          /\ fs.files[f].bytes = ThreeTimes =>
                Cardinality(LinesFor(FilePath(fs, f))) = 1
          /\ fs.files[f].bytes = TwoKeywords =>
                Cardinality(LinesFor(FilePath(fs, f))) = 2
          /\ fs.files[f].bytes = TwoAssignments =>
                Cardinality(LinesFor(FilePath(fs, f))) = 1

\* looked at when the scan of a file ends and again when the run ends
C5_OneFindingPerCheck ==
    /\ pc = "files" /\ file \in Scanned => C5_FileAgrees(file)
    /\ pc = "done" =>
          /\ \A f \in Scanned : C5_FileAgrees(f)
          /\ issues_found = Total(Scanned)

\* a finished scan of a file that holds proprietary_algo three times
C5_Witness ==
    /\ pc = "done"
    /\ \E f \in Scanned :
          /\ fs.files[f].bytes = ThreeTimes
          /\ fs.files[f].name # SelfName
          /\ Occurrences(Text(f), SECRET_KEYWORDS[1]) = 3
          /\ issues_found = 1

(***************************************************************************)
(* C6: the keyword check never runs on a file called preflight.py and no    *)
(* keyword finding names it, the credential check runs on it and prints its *)
(* finding when the pattern matches; both checks run on every other         *)
(* scanned file.                                                           *)
(***************************************************************************)
\* the checks that ran on f and the credential finding it got
C6_FileAgrees(f) ==
    /\ <<f, "credential">> \in checks
    /\ Search(Text(f)) <=>
          \E i \in LinesFor(FilePath(fs, f)) : output[i].kind = "WARNING"
    /\ fs.files[f].name # SelfName => <<f, "keyword">> \in checks

\* looked at when the scan of a file ends and again when the run ends
C6_SelfExclusion ==
    /\ \A f \in DOMAIN fs.files :
          fs.files[f].name = SelfName =>
              /\ <<f, "keyword">> \notin checks
              /\ \A i \in LinesFor(FilePath(fs, f)) : output[i].kind = "WARNING"
    /\ pc = "files" /\ file \in Scanned => C6_FileAgrees(file)
    /\ pc = "done" => \A f \in Scanned : C6_FileAgrees(f)

\* a finished scan of a preflight.py in a subdirectory that holds an
\* assignment and a keyword and got the credential finding
C6_Witness ==
    /\ pc = "done"
    /\ \E f \in Scanned :
          /\ fs.files[f].name = SelfName
          /\ fs.files[f].dir # 1
          /\ Contains(Text(f), SECRET_KEYWORDS[1])
          /\ \E i \in LinesFor(FilePath(fs, f)) : output[i].kind = "WARNING"

(***************************************************************************)
(* C7: a scanned file holding apiKey = "abcdef1234" has exactly one         *)
(* credential finding, one holding cacheKey = "abcdef1234" has none, and a  *)
(* file has a credential finding only if its content holds one of the       *)
(* names api key, secret, password, auth token, private key, access token   *)
(* (in any case, the two words joined directly or by _ or -).               *)
(***************************************************************************)
ListedNames ==
    { <<"s","e","c","r","e","t">>, <<"p","a","s","s","w","o","r","d">> }
      \cup {h \o m \o t :
              h \in { <<"a","p","i">>, <<"p","r","i","v","a","t","e">> },
              m \in { <<>>, <<"_">>, <<"-">> }, t \in { <<"k","e","y">> }}
      \cup {h \o m \o t :
              h \in { <<"a","u","t","h">>, <<"a","c","c","e","s","s">> },
              m \in { <<>>, <<"_">>, <<"-">> }, t \in { <<"t","o","k","e","n">> }}

Folded(s) == [i \in DOMAIN s |-> Lower(s[i])]

Warnings(f) == {i \in LinesFor(FilePath(fs, f)) : output[i].kind = "WARNING"}

C7_ListedNamesOnly ==
    \A f \in Scanned :
        /\ fs.files[f].bytes = ApiKeyAssignment => Cardinality(Warnings(f)) = 1
        /\ fs.files[f].bytes = CacheKeyAssignment => Warnings(f) = {}
        /\ Warnings(f) # {} =>
              \E n \in ListedNames : Contains(Folded(Text(f)), n)

\* a finished scan of a file that holds exactly cacheKey = "abcdef1234"
C7_Witness ==
    /\ pc = "done"
    /\ \E f \in Scanned : fs.files[f].bytes = CacheKeyAssignment
    /\ issues_found = 0

(***************************************************************************)
(* C8: a file has a credential finding only if its content holds a match    *)
(* of the pattern whose closing quote is the character that opened it.      *)
(***************************************************************************)
SameQuoteAssignmentAt(s, e) ==
    LET eq == SkipSpaces(s, e) IN
    /\ eq <= Len(s)
    /\ s[eq] = "="
    /\ LET open == SkipSpaces(s, eq + 1) IN
       /\ open <= Len(s)
       /\ IsQuote(s[open])
       /\ LET close == SkipValue(s, open + 1) IN
          /\ close - (open + 1) >= MinValueLen
          /\ close <= Len(s)
          /\ s[close] = s[open]

C8_ClosingQuoteMatches ==
    \A f \in Scanned :
        Warnings(f) # {} =>
            \E i \in 1..Len(Text(f)) :
                \E e \in NameEnds(Text(f), i) : SameQuoteAssignmentAt(Text(f), e)

(***************************************************************************)
(* C9: a run never changes the tree, and a second run over it prints the    *)
(* lines of the first, in the same order, and ends the same way with the    *)
(* same issues_found.                                                      *)
(***************************************************************************)
IsPrefix(a, b) == Len(a) <= Len(b) /\ SubSeq(b, 1, Len(a)) = a

C9_SecondRunAgrees ==
    /\ run > 1 => IsPrefix(output, previous.output)
    /\ run > 1 /\ pc \in {"done", "raised"} =>
          /\ output = previous.output
          /\ issues_found = previous.issues_found
          /\ pc = previous.pc

C9_Idempotent == []C9_SecondRunAgrees /\ [][fs' = fs]_vars

\* a second run that finished with findings
C9_Witness ==
    /\ run = 2
    /\ pc = "done"
    /\ issues_found >= 2
    /\ Len(opened) >= 2

(***************************************************************************)
(* C10: the startup banner is the first line and is printed before any      *)
(* directory is listed; a finding is printed while its file is the last one *)
(* opened; the findings of one file are the credential finding first, then   *)
(* the keyword findings in SECRET_KEYWORDS order; the completion banner and *)
(* the summary are printed once the traversal has ended and are the last    *)
(* two lines.                                                              *)
(***************************************************************************)
KeywordIndex(w) == CHOOSE i \in DOMAIN SECRET_KEYWORDS : SECRET_KEYWORDS[i] = w

OpenedIndex(p) == CHOOSE i \in DOMAIN opened : opened[i].path = p

C10_OrderInOutput ==
    /\ (visited # <<>> \/ opened # <<>>) => output # <<>>
    /\ output # <<>> => output[1] = StartBanner
    /\ \A i \in FindingLines : \E j \in DOMAIN opened : opened[j].path = output[i].path
    /\ \A i, j \in FindingLines :
          i < j =>
             /\ OpenedIndex(output[i].path) <= OpenedIndex(output[j].path)
             /\ output[i].path = output[j].path =>
                   /\ output[j].kind = "PROPRIETARY"
                   /\ output[i].kind = "PROPRIETARY" =>
                         KeywordIndex(output[i].word) < KeywordIndex(output[j].word)
    /\ \A i \in DOMAIN output :
          output[i].kind \in {"COMPLETE", "SUCCESS", "FAILED"} =>
             /\ pc = "done"
             /\ stack = <<>>
             /\ files = <<>>
             /\ i >= Len(output) - 1

\* a line printed by a step is a finding of the file opened last, or belongs
\* to the start or to the end of the run
C10_PrintedWhenScanned ==
    output' # output /\ output' # <<>> =>
        \A i \in (Len(output) + 1)..Len(output') :
            IF IsFinding(output'[i])
            THEN /\ opened' = opened
                 /\ opened # <<>>
                 /\ output'[i].path = Last(opened).path
                 /\ Len(output') = Len(output) + 1
            ELSE pc \in {"start", "walk"}

C10_DiscoveryOrder == []C10_OrderInOutput /\ [][C10_PrintedWhenScanned]_vars

\* a finished scan that printed findings of two files, one of them with the
\* credential finding and two keyword findings
C10_Witness ==
    /\ pc = "done"
    /\ \E f, g \in Scanned :
          /\ f # g
          /\ Cardinality(LinesFor(FilePath(fs, f))) = 3
          /\ Cardinality(LinesFor(FilePath(fs, g))) >= 1

====
